---- MODULE Spec2Model ----
(***************************************************************************)
(* A model of the piece-tree text buffer (src/src/text_buffer.rs,          *)
(* red_black_tree.rs, piece.rs, buffer.rs).                                *)
(*                                                                         *)
(* A Rust String is modelled as its UTF-8 byte sequence, a char as the     *)
(* byte sequence that encodes it, Option<T> as a sequence of length 0 or 1 *)
(* and Result<T, String> as a record with an ok flag.                      *)
(***************************************************************************)
EXTENDS Integers, Sequences, FiniteSets, TLC

\* ------------------------------------------------------------------ bounds
\* most accept_chunk calls before build()
MaxChunks == 2
\* most characters in one chunk
MaxChunkLen == 2
\* most insert/delete calls on a built buffer
MaxEdits == 1
\* most characters in one inserted text
MaxInsertLen == 1

\* RBTree::insert calls made on the tree of the tree specification
MaxTreeInserts == 6

\* texts given to one raw store, by Buffer::from_text and Buffer::append
MaxAppends == 3

\* ------------------------------------------------------- strings and chars
\* the characters texts are drawn from: 'a', '\n' and the two-byte U+00E9
NL == <<10>>
Alphabet == {<<97>>, NL, <<195, 169>>}

RECURSIVE StringsUpTo(_)
StringsUpTo(n) ==
  IF n = 0 THEN {<<>>}
  ELSE LET S == StringsUpTo(n - 1) IN S \cup {s \o c : s \in S, c \in Alphabet}

ChunkTexts == StringsUpTo(MaxChunkLen)
InsertTexts == StringsUpTo(MaxInsertLen)

None == <<>>
Some(x) == <<x>>
Ok(v) == [ok |-> TRUE, val |-> v]
Err(e) == [ok |-> FALSE, err |-> e]

\* width in bytes of the character whose encoding starts with byte b
utf8_width(b) == IF b < 128 THEN 1 ELSE IF b < 224 THEN 2 ELSE IF b < 240 THEN 3 ELSE 4

\* str::chars(): the characters of s, each as its encoding
RECURSIVE chars(_)
chars(s) ==
  IF s = <<>> THEN <<>>
  ELSE LET w == utf8_width(s[1])
       IN <<SubSeq(s, 1, w)>> \o chars(SubSeq(s, w + 1, Len(s)))

\* char::len_utf8()
len_utf8(ch) == Len(ch)

\* str::is_char_boundary(): byte i (0-based) does not continue a character
is_char_boundary(s, i) ==
  \/ i = 0
  \/ i = Len(s)
  \/ i < Len(s) /\ ~(s[i + 1] >= 128 /\ s[i + 1] < 192)

\* &s[start..end] when it does not panic
str_slice(s, start, end) == SubSeq(s, start + 1, end)

\* &s[start..end] panics off a boundary or out of range
slice_panics(s, start, end) ==
  \/ start > end
  \/ end > Len(s)
  \/ ~is_char_boundary(s, start)
  \/ ~is_char_boundary(s, end)

RECURSIVE Concat(_)
Concat(ss) == IF ss = <<>> THEN <<>> ELSE Head(ss) \o Concat(Tail(ss))

\* ---------------------------------------------------------------- piece.rs
\* utils::count_line_breaks
RECURSIVE count_nl(_)
count_nl(cs) ==
  IF cs = <<>> THEN 0 ELSE (IF Head(cs) = NL THEN 1 ELSE 0) + count_nl(Tail(cs))

\* count_line_breaks counting the lines of the text, one more than its breaks
count_line_breaks_as_lines(text) == count_nl(chars(text)) + 1

count_line_breaks(text) == count_nl(chars(text))

Piece_new(piece_type, buffer_index, start, length, line_break_count) ==
  [piece_type |-> piece_type, buffer_index |-> buffer_index, start |-> start,
   length |-> length, line_break_count |-> line_break_count]

Piece_original(buffer_index, start, length, line_break_count) ==
  Piece_new("Original", buffer_index, start, length, line_break_count)

Piece_added(buffer_index, start, length, line_break_count) ==
  Piece_new("Added", buffer_index, start, length, line_break_count)

\* --------------------------------------------------------------- buffer.rs
\* the loop shared by Buffer::append and Buffer::compute_line_starts: the
\* offsets just after each '\n' of cs, counting from offset
RECURSIVE scan_line_starts(_, _)
scan_line_starts(cs, offset) ==
  IF cs = <<>> THEN <<>>
  ELSE LET next == offset + len_utf8(Head(cs))
       IN (IF Head(cs) = NL THEN <<next>> ELSE <<>>) \o scan_line_starts(Tail(cs), next)

Buffer_new == [content |-> <<>>, line_starts |-> <<0>>]

compute_line_starts(content) == <<0>> \o scan_line_starts(chars(content), 0)

Buffer_from_text(text) == [content |-> text, line_starts |-> compute_line_starts(text)]

\* append that counts the new line starts from the start of the appended text
Buffer_append_relative_offsets(buffer, text) ==
  [content |-> buffer.content \o text,
   line_starts |-> buffer.line_starts \o scan_line_starts(chars(text), 0)]

\* Buffer::append
Buffer_append(buffer, text) ==
  [content |-> buffer.content \o text,
   line_starts |-> buffer.line_starts
                     \o scan_line_starts(chars(text), Len(buffer.content))]

Buffer_len(buffer) == Len(buffer.content)

Buffer_slice(buffer, start, end) == str_slice(buffer.content, start, end)

\* Buffer::line_count
Buffer_line_count(buffer) == Len(buffer.line_starts)

\* Buffer::line_start
line_start(buffer, line) ==
  IF line < Len(buffer.line_starts) THEN Some(buffer.line_starts[line + 1]) ELSE None

\* line_end that takes the start of the next line as the end of the line
line_end_at_next_line_start(buffer, line) ==
  IF line + 1 < Len(buffer.line_starts) THEN Some(buffer.line_starts[line + 2])
  ELSE IF line + 1 = Len(buffer.line_starts) THEN Some(Len(buffer.content))
  ELSE None

\* Buffer::line_end
line_end(buffer, line) ==
  IF line + 1 < Len(buffer.line_starts) THEN Some(buffer.line_starts[line + 2] - 1)
  ELSE IF line + 1 = Len(buffer.line_starts) THEN Some(Len(buffer.content))
  ELSE None

\* the slice &content[start..end] of Buffer::line_content panics
line_content_panics(buffer, line) ==
  /\ line_start(buffer, line) # None
  /\ line_end(buffer, line) # None
  /\ slice_panics(buffer.content, line_start(buffer, line)[1], line_end(buffer, line)[1])

\* Buffer::line_content
line_content(buffer, line) ==
  LET start == line_start(buffer, line)
      end == line_end(buffer, line)
  IN IF start = None \/ end = None THEN None
     ELSE Some(str_slice(buffer.content, start[1], end[1]))

\* Buffer::line_at_offset: binary_search of line_starts, which holds no value
\* twice: Ok(index) at the entry equal to offset, else Err(index) at the
\* number of entries below offset
line_at_offset(buffer, offset) ==
  IF offset > Len(buffer.content) THEN None
  ELSE LET ls == buffer.line_starts
           hits == {k \in 1..Len(ls) : ls[k] = offset}
           index == Cardinality({k \in 1..Len(ls) : ls[k] < offset})
       IN IF hits # {} THEN Some((CHOOSE k \in hits : TRUE) - 1)
          ELSE IF index > 0 THEN Some(index - 1)
          ELSE Some(0)

\* the loop of offset_at_position; st is [char_count, byte_offset]
RECURSIVE offset_at_position_loop(_, _, _)
offset_at_position_loop(cs, st, column) ==
  IF cs = <<>> \/ st.char_count = column THEN st
  ELSE offset_at_position_loop(
         Tail(cs),
         [char_count |-> st.char_count + 1,
          byte_offset |-> st.byte_offset + len_utf8(Head(cs))],
         column)

\* Buffer::offset_at_position
offset_at_position(buffer, line, column) ==
  LET start == line_start(buffer, line)
      content == line_content(buffer, line)
  IN IF start = None \/ content = None THEN None
     ELSE LET st == offset_at_position_loop(
                      chars(content[1]), [char_count |-> 0, byte_offset |-> 0], column)
          IN IF st.char_count = column THEN Some(start[1] + st.byte_offset) ELSE None

\* the loop of position_at_offset; st is [column, byte_count]
RECURSIVE position_at_offset_loop(_, _, _)
position_at_offset_loop(cs, st, bytes_from_line_start) ==
  IF cs = <<>> \/ st.byte_count >= bytes_from_line_start THEN st
  ELSE position_at_offset_loop(
         Tail(cs),
         [column |-> st.column + 1, byte_count |-> st.byte_count + len_utf8(Head(cs))],
         bytes_from_line_start)

\* Buffer::position_at_offset
position_at_offset(buffer, offset) ==
  LET line == line_at_offset(buffer, offset)
  IN IF line = None THEN None
     ELSE LET start == line_start(buffer, line[1])
              content == line_content(buffer, line[1])
          IN IF start = None \/ content = None THEN None
             ELSE LET st == position_at_offset_loop(
                              chars(content[1]), [column |-> 0, byte_count |-> 0],
                              offset - start[1])
                  IN Some(<<line[1], st.column>>)

\* utils::get_piece_content
utils_get_piece_content(piece, original_buffers, added_buffers) ==
  LET buffers == IF piece.piece_type = "Original" THEN original_buffers ELSE added_buffers
  IN IF piece.buffer_index >= Len(buffers) THEN None
     ELSE LET buffer == buffers[piece.buffer_index + 1]
          IN IF piece.start + piece.length <= Buffer_len(buffer)
             THEN Some(Buffer_slice(buffer, piece.start, piece.start + piece.length))
             ELSE None

\* the slice taken by utils::get_piece_content panics: Buffer::slice is
\* &content[start..end], reached only when start + length fits the buffer
piece_content_panics(piece, original_buffers, added_buffers) ==
  LET buffers == IF piece.piece_type = "Original" THEN original_buffers ELSE added_buffers
  IN /\ piece.buffer_index < Len(buffers)
     /\ LET buffer == buffers[piece.buffer_index + 1]
        IN /\ piece.start + piece.length <= Buffer_len(buffer)
           /\ slice_panics(buffer.content, piece.start, piece.start + piece.length)

\* ------------------------------------------------------- red_black_tree.rs
\* RBNode::new: new nodes are always red
RBNode_new(piece) ==
  [piece |-> piece, color |-> "Red", left_subtree_length |-> 0,
   left_subtree_line_breaks |-> 0, left |-> None, right |-> None]

\* RBNode::right_subtree_length
RECURSIVE right_subtree_length(_)
right_subtree_length(node) ==
  IF node.right = None THEN 0
  ELSE LET n == node.right[1]
       IN n.left_subtree_length + n.piece.length + right_subtree_length(n)

\* RBNode::right_subtree_line_breaks
RECURSIVE right_subtree_line_breaks(_)
right_subtree_line_breaks(node) ==
  IF node.right = None THEN 0
  ELSE LET n == node.right[1]
       IN n.left_subtree_line_breaks + n.piece.line_break_count
            + right_subtree_line_breaks(n)

\* update_metadata with the line-break aggregate left as it was
update_metadata_length_only(node) ==
  [node EXCEPT
     !.left_subtree_length =
        IF node.left = None THEN 0
        ELSE LET n == node.left[1]
             IN n.left_subtree_length + n.piece.length + right_subtree_length(n)]

\* update_metadata that leaves out the right subtree of the left child
update_metadata_without_right(node) ==
  [node EXCEPT
     !.left_subtree_length =
        IF node.left = None THEN 0
        ELSE LET n == node.left[1] IN n.left_subtree_length + n.piece.length,
     !.left_subtree_line_breaks =
        IF node.left = None THEN 0
        ELSE LET n == node.left[1]
             IN n.left_subtree_line_breaks + n.piece.line_break_count]

\* RBNode::update_metadata
update_metadata(node) ==
  [node EXCEPT
     !.left_subtree_length =
        IF node.left = None THEN 0
        ELSE LET n == node.left[1]
             IN n.left_subtree_length + n.piece.length + right_subtree_length(n),
     !.left_subtree_line_breaks =
        IF node.left = None THEN 0
        ELSE LET n == node.left[1]
             IN n.left_subtree_line_breaks + n.piece.line_break_count
                  + right_subtree_line_breaks(n)]

\* total_length without the length cached for the left subtree
RBNode_total_length_without_left(node) ==
  node.piece.length + right_subtree_length(node)

\* RBNode::total_length
RBNode_total_length(node) ==
  node.left_subtree_length + node.piece.length + right_subtree_length(node)

\* RBNode::total_line_breaks
RBNode_total_line_breaks(node) ==
  node.left_subtree_line_breaks + node.piece.line_break_count
    + right_subtree_line_breaks(node)

RBTree_new == [root |-> None, size |-> 0]

RBTree_is_empty(tree) == tree.root = None

RBTree_len(tree) == tree.size

total_length(tree) ==
  IF tree.root = None THEN 0 ELSE RBNode_total_length(tree.root[1])

total_line_breaks(tree) ==
  IF tree.root = None THEN 0 ELSE RBNode_total_line_breaks(tree.root[1])

is_red(node) == IF node = None THEN FALSE ELSE node[1].color = "Red"

is_red_left_child(node) ==
  IF node = None THEN FALSE
  ELSE IF node[1].left = None THEN FALSE
  ELSE node[1].left[1].color = "Red"

\* RBTree::rotate_left
rotate_left(node) ==
  LET new_root == node.right[1]
      n1 == update_metadata([node EXCEPT !.right = new_root.left, !.color = "Red"])
  IN update_metadata([new_root EXCEPT !.color = node.color, !.left = Some(n1)])

rotate_right(node) ==
  LET new_root == node.left[1]
      n1 == update_metadata([node EXCEPT !.left = new_root.right, !.color = "Red"])
  IN update_metadata([new_root EXCEPT !.color = node.color, !.right = Some(n1)])

\* flip_colors that blackens the children and leaves the node's colour
flip_colors_children_only(node) ==
  [node EXCEPT
     !.left = IF node.left = None THEN None
              ELSE Some([node.left[1] EXCEPT !.color = "Black"]),
     !.right = IF node.right = None THEN None
               ELSE Some([node.right[1] EXCEPT !.color = "Black"])]

\* RBTree::flip_colors
flip_colors(node) ==
  [node EXCEPT
     !.color = "Red",
     !.left = IF node.left = None THEN None
              ELSE Some([node.left[1] EXCEPT !.color = "Black"]),
     !.right = IF node.right = None THEN None
               ELSE Some([node.right[1] EXCEPT !.color = "Black"])]

\* RBTree::insert_recursive: always descends to the right, then rebalances
RECURSIVE insert_recursive(_, _)
insert_recursive(node, piece) ==
  IF node = None THEN Some(RBNode_new(piece))
  ELSE LET n0 == [node[1] EXCEPT !.right = insert_recursive(node[1].right, piece)]
           n1 == IF is_red(n0.right) /\ ~is_red(n0.left) THEN rotate_left(n0) ELSE n0
           n2 == IF is_red(n1.left) /\ is_red_left_child(n1.left)
                 THEN rotate_right(n1) ELSE n1
           n3 == IF is_red(n2.left) /\ is_red(n2.right) THEN flip_colors(n2) ELSE n2
       IN Some(update_metadata(n3))

\* RBTree::insert: the root is always black
RBTree_insert(tree, piece) ==
  LET r == insert_recursive(tree.root, piece)
  IN [root |-> IF r = None THEN None ELSE Some([r[1] EXCEPT !.color = "Black"]),
      size |-> tree.size + 1]

\* the descent that forgets the node's own piece when it goes right
RECURSIVE find_piece_descent_keeps_piece_length(_, _)
find_piece_descent_keeps_piece_length(node, offset) ==
  IF node = None THEN None
  ELSE LET n == node[1]
       IN IF offset < n.left_subtree_length
          THEN find_piece_descent_keeps_piece_length(n.left, offset)
          ELSE IF offset < n.left_subtree_length + n.piece.length
          THEN Some(n.piece)
          ELSE find_piece_descent_keeps_piece_length(
                 n.right, offset - n.left_subtree_length)

\* RBTree::find_piece_at_offset_recursive
RECURSIVE find_piece_at_offset_recursive(_, _)
find_piece_at_offset_recursive(node, offset) ==
  IF node = None THEN None
  ELSE LET n == node[1]
       IN IF offset < n.left_subtree_length
          THEN find_piece_at_offset_recursive(n.left, offset)
          ELSE IF offset < n.left_subtree_length + n.piece.length
          THEN Some(n.piece)
          ELSE find_piece_at_offset_recursive(
                 n.right, offset - n.left_subtree_length - n.piece.length)

find_piece_at_offset(tree, offset) == find_piece_at_offset_recursive(tree.root, offset)

\* RBTree::find_pieces_at_line_recursive: the pieces pushed by the descent
RECURSIVE find_pieces_at_line_recursive(_, _)
find_pieces_at_line_recursive(node, line) ==
  IF node = None THEN <<>>
  ELSE LET n == node[1]
       IN IF line < n.left_subtree_line_breaks
          THEN find_pieces_at_line_recursive(n.left, line)
          ELSE IF line < n.left_subtree_line_breaks + n.piece.line_break_count
          THEN <<n.piece>>
          ELSE find_pieces_at_line_recursive(
                 n.right, line - n.left_subtree_line_breaks - n.piece.line_break_count)

\* RBTree::find_pieces_at_line
find_pieces_at_line(tree, line) == find_pieces_at_line_recursive(tree.root, line)

RECURSIVE collect_pieces_recursive(_)
collect_pieces_recursive(node) ==
  IF node = None THEN <<>>
  ELSE collect_pieces_recursive(node[1].left) \o <<node[1].piece>>
         \o collect_pieces_recursive(node[1].right)

\* collect_pieces that visits the root before its left subtree
collect_pieces_root_first(tree) ==
  IF tree.root = None THEN <<>>
  ELSE <<tree.root[1].piece>> \o collect_pieces_recursive(tree.root[1].left)
         \o collect_pieces_recursive(tree.root[1].right)

\* RBTree::collect_pieces
collect_pieces(tree) == collect_pieces_recursive(tree.root)

\* ---------------------------------------------------------- text_buffer.rs
\* last element index helpers for Vec::last_mut()
Last(v) == v[Len(v)]

\* TextBufferBuilder::new: always one added buffer
TextBufferBuilder_new ==
  [original_buffers |-> <<>>, added_buffers |-> <<Buffer_new>>, pieces |-> <<>>]

\* accept_chunk with every piece starting at offset 0 of the original buffer
accept_chunk_start_zero(builder, text) ==
  IF text = <<>> THEN builder
  ELSE IF builder.original_buffers # <<>>
  THEN LET n == Len(builder.original_buffers)
           last_buffer == Last(builder.original_buffers)
           line_breaks == count_line_breaks(text)
           piece == Piece_original(n - 1, 0, Len(text), line_breaks)
       IN [builder EXCEPT
             !.original_buffers = [@ EXCEPT ![n] = Buffer_append(last_buffer, text)],
             !.pieces = Append(@, piece)]
  ELSE LET buffer == Buffer_from_text(text)
           line_breaks == count_line_breaks(text)
           piece == Piece_original(0, 0, Len(text), line_breaks)
       IN [builder EXCEPT
             !.original_buffers = Append(@, buffer),
             !.pieces = Append(@, piece)]

\* TextBufferBuilder::accept_chunk
accept_chunk(builder, text) ==
  IF text = <<>> THEN builder
  ELSE IF builder.original_buffers # <<>>
  THEN LET n == Len(builder.original_buffers)
           last_buffer == Last(builder.original_buffers)
           start_offset == Buffer_len(last_buffer)
           line_breaks == count_line_breaks(text)
           piece == Piece_original(n - 1, start_offset, Len(text), line_breaks)
       IN [builder EXCEPT
             !.original_buffers = [@ EXCEPT ![n] = Buffer_append(last_buffer, text)],
             !.pieces = Append(@, piece)]
  ELSE LET buffer == Buffer_from_text(text)
           line_breaks == count_line_breaks(text)
           piece == Piece_original(0, 0, Len(text), line_breaks)
       IN [builder EXCEPT
             !.original_buffers = Append(@, buffer),
             !.pieces = Append(@, piece)]

\* the loop of build(): tree.insert(piece) for every piece, in order
RECURSIVE insert_all(_, _)
insert_all(tree, pieces) ==
  IF pieces = <<>> THEN tree
  ELSE insert_all(RBTree_insert(tree, Head(pieces)), Tail(pieces))

\* TextBufferBuilder::build
build(builder) ==
  LET tree == insert_all(RBTree_new, builder.pieces)
  IN IF RBTree_is_empty(tree)
     THEN LET tree1 == RBTree_insert(tree, Piece_original(0, 0, 0, 0))
          IN IF builder.original_buffers = <<>>
             THEN [original_buffers |-> <<Buffer_new>>,
                   added_buffers |-> builder.added_buffers,
                   tree |-> tree1]
             ELSE [original_buffers |-> builder.original_buffers,
                   added_buffers |-> builder.added_buffers,
                   tree |-> tree1]
     ELSE [original_buffers |-> builder.original_buffers,
           added_buffers |-> builder.added_buffers,
           tree |-> tree]

\* TextBuffer::new
TextBuffer_new ==
  [original_buffers |-> <<Buffer_new>>, added_buffers |-> <<Buffer_new>>,
   tree |-> RBTree_new]

\* TextBuffer::from_text
from_text(text) == build(accept_chunk(TextBufferBuilder_new, text))

\* TextBuffer::get_piece_content
get_piece_content(tb, piece) ==
  utils_get_piece_content(piece, tb.original_buffers, tb.added_buffers)

\* line_count as the number of line breaks, the last line not counted
line_count_line_breaks_only(tb) ==
  IF RBTree_is_empty(tb.tree) THEN 1 ELSE total_line_breaks(tb.tree)

\* TextBuffer::line_count
line_count(tb) ==
  IF RBTree_is_empty(tb.tree) THEN 1 ELSE total_line_breaks(tb.tree) + 1

length(tb) == total_length(tb.tree)

is_empty(tb) == length(tb) = 0

\* TextBuffer::get_all_text: pieces whose content does not resolve are skipped
RECURSIVE all_text_loop(_, _)
all_text_loop(tb, pieces) ==
  IF pieces = <<>> THEN <<>>
  ELSE LET c == get_piece_content(tb, Head(pieces))
       IN (IF c = None THEN <<>> ELSE c[1]) \o all_text_loop(tb, Tail(pieces))

get_all_text(tb) == all_text_loop(tb, collect_pieces(tb.tree))

\* the inner loop of get_line_content over the characters of one piece; st is
\* [content, current_line]. A break leaves this loop only.
RECURSIVE line_content_chars(_, _, _)
line_content_chars(cs, st, line) ==
  IF cs = <<>> THEN st
  ELSE LET ch == Head(cs)
       IN IF st.current_line = line
          THEN IF ch = NL THEN st
               ELSE line_content_chars(
                      Tail(cs), [st EXCEPT !.content = @ \o ch], line)
          ELSE IF ch = NL
          THEN LET st1 == [st EXCEPT !.current_line = @ + 1]
               IN IF st1.current_line > line THEN st1
                  ELSE line_content_chars(Tail(cs), st1, line)
          ELSE line_content_chars(Tail(cs), st, line)

\* the outer loop of get_line_content over the pieces
RECURSIVE line_content_pieces(_, _, _, _)
line_content_pieces(tb, pieces, st, line) ==
  IF pieces = <<>> THEN Ok(st.content)
  ELSE LET c == get_piece_content(tb, Head(pieces))
       IN IF c = None THEN Err("Failed to get piece content")
          ELSE LET st1 == line_content_chars(chars(c[1]), st, line)
               IN IF st1.current_line > line THEN Ok(st1.content)
                  ELSE line_content_pieces(tb, Tail(pieces), st1, line)

\* get_line_content rejecting only lines beyond line_count
get_line_content_past_count(tb, line) ==
  IF line > line_count(tb) THEN Err(<<"Line", line, "out of bounds">>)
  ELSE line_content_pieces(tb, collect_pieces(tb.tree),
                           [content |-> <<>>, current_line |-> 0], line)

\* TextBuffer::get_line_content
get_line_content(tb, line) ==
  IF line >= line_count(tb) THEN Err(<<"Line", line, "out of bounds">>)
  ELSE line_content_pieces(tb, collect_pieces(tb.tree),
                           [content |-> <<>>, current_line |-> 0], line)

\* get_line_length counting bytes instead of chars
get_line_length_bytes(tb, line) ==
  LET content == get_line_content(tb, line)
  IN IF content.ok THEN Ok(Len(content.val)) ELSE content

\* TextBuffer::get_line_length: the number of chars of the line
get_line_length(tb, line) ==
  LET content == get_line_content(tb, line)
  IN IF content.ok THEN Ok(Len(chars(content.val))) ELSE content

\* the inner loop of position_to_offset over the characters of one piece; st
\* is [current_line, current_column, byte_offset]; ret is the early return
RECURSIVE p2o_chars(_, _, _)
p2o_chars(cs, st, position) ==
  IF cs = <<>> THEN [ret |-> None, st |-> st]
  ELSE LET ch == Head(cs)
           adv == [st EXCEPT !.byte_offset = @ + len_utf8(ch)]
       IN IF st.current_line = position.line
          THEN IF st.current_column = position.column
               THEN [ret |-> Some(Ok(st.byte_offset)), st |-> st]
               ELSE IF ch = NL
               THEN [ret |-> Some(Ok(st.byte_offset)), st |-> st]
               ELSE p2o_chars(Tail(cs), [adv EXCEPT !.current_column = @ + 1], position)
          ELSE IF ch = NL
          THEN LET st1 == [st EXCEPT !.current_line = @ + 1, !.current_column = 0]
               IN IF st1.current_line > position.line
                  THEN [ret |-> Some(Err("Position out of bounds")), st |-> st1]
                  ELSE p2o_chars(Tail(cs),
                                 [st1 EXCEPT !.byte_offset = @ + len_utf8(ch)], position)
          ELSE p2o_chars(Tail(cs), adv, position)

RECURSIVE p2o_pieces(_, _, _, _)
p2o_pieces(tb, pieces, st, position) ==
  IF pieces = <<>>
  THEN IF st.current_line = position.line /\ st.current_column = position.column
       THEN Ok(st.byte_offset)
       ELSE Err("Position out of bounds")
  ELSE LET c == get_piece_content(tb, Head(pieces))
       IN IF c = None THEN Err("Failed to get piece content")
          ELSE LET r == p2o_chars(chars(c[1]), st, position)
               IN IF r.ret # None THEN r.ret[1]
                  ELSE p2o_pieces(tb, Tail(pieces), r.st, position)

\* TextBuffer::position_to_offset
position_to_offset(tb, position) ==
  p2o_pieces(tb, collect_pieces(tb.tree),
             [current_line |-> 0, current_column |-> 0, byte_offset |-> 0], position)

Position_new(line, column) == [line |-> line, column |-> column]

Range_new(start, end) == [start |-> start, end |-> end]

\* the inner loop of offset_to_position with the column advanced by the byte
\* width of each character
RECURSIVE o2p_chars_byte_columns(_, _, _)
o2p_chars_byte_columns(cs, st, offset) ==
  IF cs = <<>> THEN [ret |-> None, st |-> st]
  ELSE IF st.current_offset = offset
  THEN [ret |-> Some(Ok([line |-> st.current_line, column |-> st.current_column])),
        st |-> st]
  ELSE LET ch == Head(cs)
           st1 == IF ch = NL
                  THEN [st EXCEPT !.current_line = @ + 1, !.current_column = 0]
                  ELSE [st EXCEPT !.current_column = @ + len_utf8(ch)]
       IN o2p_chars_byte_columns(
            Tail(cs), [st1 EXCEPT !.current_offset = @ + len_utf8(ch)], offset)

\* the inner loop of offset_to_position; st is
\* [current_line, current_column, current_offset]
RECURSIVE o2p_chars(_, _, _)
o2p_chars(cs, st, offset) ==
  IF cs = <<>> THEN [ret |-> None, st |-> st]
  ELSE IF st.current_offset = offset
  THEN [ret |-> Some(Ok(Position_new(st.current_line, st.current_column))), st |-> st]
  ELSE LET ch == Head(cs)
           st1 == IF ch = NL
                  THEN [st EXCEPT !.current_line = @ + 1, !.current_column = 0]
                  ELSE [st EXCEPT !.current_column = @ + 1]
       IN o2p_chars(Tail(cs), [st1 EXCEPT !.current_offset = @ + len_utf8(ch)], offset)

RECURSIVE o2p_pieces(_, _, _, _)
o2p_pieces(tb, pieces, st, offset) ==
  IF pieces = <<>>
  THEN IF st.current_offset = offset
       THEN Ok(Position_new(st.current_line, st.current_column))
       ELSE Err("Offset out of bounds")
  ELSE LET c == get_piece_content(tb, Head(pieces))
       IN IF c = None THEN Err("Failed to get piece content")
          ELSE LET r == o2p_chars(chars(c[1]), st, offset)
               IN IF r.ret # None THEN r.ret[1]
                  ELSE o2p_pieces(tb, Tail(pieces), r.st, offset)

\* TextBuffer::offset_to_position
offset_to_position(tb, offset) ==
  o2p_pieces(tb, collect_pieces(tb.tree),
             [current_line |-> 0, current_column |-> 0, current_offset |-> 0], offset)

\* a panic (an out-of-range or off-boundary slice), which no caller can catch
Panic == [ok |-> FALSE, err |-> "panic"]

saturating_sub(a, b) == IF a >= b THEN a - b ELSE 0

\* the loop of get_text_in_range with content_start taken from the start of
\* the document instead of the start of the piece
RECURSIVE text_in_range_loop_absolute_start(_, _, _, _, _)
text_in_range_loop_absolute_start(tb, pieces, st, start_offset, end_offset) ==
  IF pieces = <<>> THEN Ok(st.content)
  ELSE LET piece == Head(pieces)
           c == get_piece_content(tb, piece)
       IN IF c = None THEN Err("Failed to get piece content")
          ELSE LET piece_start == st.current_offset
                   piece_end == st.current_offset + piece.length
               IN IF piece_start >= end_offset THEN Ok(st.content)
                  ELSE IF piece_end > start_offset
                  THEN LET content_start == start_offset
                           content_end == IF end_offset < piece_end
                                          THEN end_offset - piece_start
                                          ELSE piece.length
                       IN IF content_start < Len(c[1]) /\ content_end <= Len(c[1])
                          THEN IF slice_panics(c[1], content_start, content_end)
                               THEN Panic
                               ELSE text_in_range_loop_absolute_start(
                                      tb, Tail(pieces),
                                      [content |-> st.content
                                                     \o str_slice(c[1], content_start, content_end),
                                       current_offset |-> piece_end],
                                      start_offset, end_offset)
                          ELSE text_in_range_loop_absolute_start(
                                 tb, Tail(pieces), [st EXCEPT !.current_offset = piece_end],
                                 start_offset, end_offset)
                  ELSE text_in_range_loop_absolute_start(
                         tb, Tail(pieces), [st EXCEPT !.current_offset = piece_end],
                         start_offset, end_offset)

\* the loop of get_text_in_range over the pieces; st is [content, current_offset]
RECURSIVE text_in_range_loop(_, _, _, _, _)
text_in_range_loop(tb, pieces, st, start_offset, end_offset) ==
  IF pieces = <<>> THEN Ok(st.content)
  ELSE LET piece == Head(pieces)
           c == get_piece_content(tb, piece)
       IN IF c = None THEN Err("Failed to get piece content")
          ELSE LET piece_start == st.current_offset
                   piece_end == st.current_offset + piece.length
               IN IF piece_start >= end_offset THEN Ok(st.content)
                  ELSE IF piece_end > start_offset
                  THEN LET content_start == saturating_sub(start_offset, piece_start)
                           content_end == IF end_offset < piece_end
                                          THEN end_offset - piece_start
                                          ELSE piece.length
                       IN IF content_start < Len(c[1]) /\ content_end <= Len(c[1])
                          THEN IF slice_panics(c[1], content_start, content_end)
                               THEN Panic
                               ELSE text_in_range_loop(
                                      tb, Tail(pieces),
                                      [content |-> st.content
                                                     \o str_slice(c[1], content_start, content_end),
                                       current_offset |-> piece_end],
                                      start_offset, end_offset)
                          ELSE text_in_range_loop(
                                 tb, Tail(pieces), [st EXCEPT !.current_offset = piece_end],
                                 start_offset, end_offset)
                  ELSE text_in_range_loop(
                         tb, Tail(pieces), [st EXCEPT !.current_offset = piece_end],
                         start_offset, end_offset)

\* get_text_in_range with only reversed ranges rejected
get_text_in_range_accepts_empty_range(tb, range) ==
  LET start_offset == position_to_offset(tb, range.start)
  IN IF ~start_offset.ok THEN start_offset
     ELSE LET end_offset == position_to_offset(tb, range.end)
          IN IF ~end_offset.ok THEN end_offset
             ELSE IF start_offset.val > end_offset.val THEN Err("Invalid range")
             ELSE text_in_range_loop(tb, collect_pieces(tb.tree),
                                     [content |-> <<>>, current_offset |-> 0],
                                     start_offset.val, end_offset.val)

\* TextBuffer::get_text_in_range
get_text_in_range(tb, range) ==
  LET start_offset == position_to_offset(tb, range.start)
  IN IF ~start_offset.ok THEN start_offset
     ELSE LET end_offset == position_to_offset(tb, range.end)
          IN IF ~end_offset.ok THEN end_offset
             ELSE IF start_offset.val >= end_offset.val THEN Err("Invalid range")
             ELSE text_in_range_loop(tb, collect_pieces(tb.tree),
                                     [content |-> <<>>, current_offset |-> 0],
                                     start_offset.val, end_offset.val)

\* insert with the text appended to the added buffer before the position is
\* resolved
insert_append_first(tb, position, text) ==
  IF text = <<>> THEN [tb |-> tb, res |-> Ok(<<>>)]
  ELSE LET n == Len(tb.added_buffers)
           added_buffer == Last(tb.added_buffers)
           start_offset == Buffer_len(added_buffer)
           tb1 == [tb EXCEPT !.added_buffers =
                                [@ EXCEPT ![n] = Buffer_append(added_buffer, text)]]
           offset == position_to_offset(tb, position)
       IN IF ~offset.ok THEN [tb |-> tb1, res |-> offset]
          ELSE LET line_breaks == count_line_breaks(text)
                   new_piece == Piece_added(n - 1, start_offset, Len(text), line_breaks)
               IN [tb |-> [tb1 EXCEPT !.tree = RBTree_insert(tb.tree, new_piece)],
                   res |-> Ok(<<>>)]

\* insert that starts the added buffer afresh with the new text
insert_rewrites_added_buffer(tb, position, text) ==
  IF text = <<>> THEN [tb |-> tb, res |-> Ok(<<>>)]
  ELSE LET offset == position_to_offset(tb, position)
       IN IF ~offset.ok THEN [tb |-> tb, res |-> offset]
          ELSE LET n == Len(tb.added_buffers)
                   new_piece == Piece_added(n - 1, 0, Len(text), count_line_breaks(text))
               IN [tb |-> [tb EXCEPT
                             !.added_buffers = [@ EXCEPT ![n] = Buffer_from_text(text)],
                             !.tree = RBTree_insert(tb.tree, new_piece)],
                   res |-> Ok(<<>>)]

\* TextBuffer::insert: the buffer after the call and the call's result. Both
\* branches on find_piece_at_offset insert the new piece with RBTree::insert.
insert(tb, position, text) ==
  IF text = <<>> THEN [tb |-> tb, res |-> Ok(<<>>)]
  ELSE LET offset == position_to_offset(tb, position)
       IN IF ~offset.ok THEN [tb |-> tb, res |-> offset]
          ELSE LET n == Len(tb.added_buffers)
                   added_buffer == Last(tb.added_buffers)
                   start_offset == Buffer_len(added_buffer)
                   line_breaks == count_line_breaks(text)
                   new_piece == Piece_added(n - 1, start_offset, Len(text), line_breaks)
                   tree1 == IF find_piece_at_offset(tb.tree, offset.val) # None
                            THEN RBTree_insert(tb.tree, new_piece)
                            ELSE RBTree_insert(tb.tree, new_piece)
               IN [tb |-> [tb EXCEPT
                             !.added_buffers =
                                [@ EXCEPT ![n] = Buffer_append(added_buffer, text)],
                             !.tree = tree1],
                   res |-> Ok(<<>>)]

\* the unwrap of added_buffers.last_mut() in insert panics: reached with a
\* non-empty text at a position that resolves, when there is no added buffer
insert_panics(tb, position, text) ==
  /\ text # <<>>
  /\ position_to_offset(tb, position).ok
  /\ tb.added_buffers = <<>>

\* delete returning the whole text instead of the text of the range
delete_returns_all_text(tb, range) ==
  LET start_offset == position_to_offset(tb, range.start)
  IN IF ~start_offset.ok THEN [tb |-> tb, res |-> start_offset]
     ELSE LET end_offset == position_to_offset(tb, range.end)
          IN IF ~end_offset.ok THEN [tb |-> tb, res |-> end_offset]
             ELSE IF start_offset.val >= end_offset.val
             THEN [tb |-> tb, res |-> Err("Invalid range")]
             ELSE [tb |-> tb, res |-> Ok(get_all_text(tb))]

\* TextBuffer::delete: the buffer after the call and the call's result; the
\* tree and the stores are left as they are
delete(tb, range) ==
  LET start_offset == position_to_offset(tb, range.start)
  IN IF ~start_offset.ok THEN [tb |-> tb, res |-> start_offset]
     ELSE LET end_offset == position_to_offset(tb, range.end)
          IN IF ~end_offset.ok THEN [tb |-> tb, res |-> end_offset]
             ELSE IF start_offset.val >= end_offset.val
             THEN [tb |-> tb, res |-> Err("Invalid range")]
             ELSE [tb |-> tb, res |-> get_text_in_range(tb, range)]

\* ------------------------------------------------------------ reference text
\* the lines of a text: the segments between its '\n' characters, each a
\* sequence of chars
RECURSIVE SplitLines(_, _)
SplitLines(cs, cur) ==
  IF cs = <<>> THEN <<cur>>
  ELSE IF Head(cs) = NL THEN <<cur>> \o SplitLines(Tail(cs), <<>>)
  ELSE SplitLines(Tail(cs), Append(cur, Head(cs)))

LinesOf(text) == SplitLines(chars(text), <<>>)

CountNL(text) == Cardinality({i \in 1..Len(text) : text[i] = NL[1]})

RECURSIVE MaxLen(_)
MaxLen(ls) ==
  IF ls = <<>> THEN 0
  ELSE LET m == MaxLen(Tail(ls)) IN IF Len(Head(ls)) > m THEN Len(Head(ls)) ELSE m

\* the byte offset at which line L (0-based) of the lines ls starts
RECURSIVE LineStart(_, _)
LineStart(ls, L) ==
  IF L = 0 THEN 0 ELSE LineStart(ls, L - 1) + Len(Concat(ls[L])) + 1

\* the sum of the lengths of a sequence of pieces
RECURSIVE SumLengths(_)
SumLengths(pieces) ==
  IF pieces = <<>> THEN 0 ELSE Head(pieces).length + SumLengths(Tail(pieces))

\* the byte offsets at which a character of text starts, and its end
RECURSIVE BoundariesFrom(_, _)
BoundariesFrom(cs, o) ==
  IF cs = <<>> THEN {o} ELSE {o} \cup BoundariesFrom(Tail(cs), o + Len(Head(cs)))

Boundaries(text) == BoundariesFrom(chars(text), 0)

\* ------------------------------------------------------------ state machine
VARIABLES
  phase,     \* "start", "builder" (accepting chunks) or "buffer" (built)
  builder,   \* the TextBufferBuilder
  buffer,    \* the TextBuffer
  accepted,  \* history: the chunks given to accept_chunk, in call order
  nedits,    \* insert and delete calls made so far
  last,      \* history: the last call, its arguments, result and pre-state
  tree,      \* an RBTree of its own, filled by RBTree::insert calls only
  inserted,  \* history: the pieces given to RBTree::insert on tree, in call order
  store,     \* a raw Buffer of its own, made by Buffer::new or Buffer::from_text
  appended   \* history: the texts given to from_text and append on store, in order

vars == <<phase, builder, buffer, accepted, nedits, last, tree, inserted, store, appended>>

\* the positions calls are made with: every line up to one past the last,
\* every column up to one past the longest line
ArgPositions(tb) ==
  LET text == get_all_text(tb)
      ls == LinesOf(text)
  IN {Position_new(l, c) : l \in 0..Len(ls), c \in 0..(MaxLen(ls) + 1)}

Init ==
  /\ phase = "start"
  /\ builder = TextBufferBuilder_new
  /\ buffer = TextBuffer_new
  /\ accepted = <<>>
  /\ nedits = 0
  /\ last = [op |-> "none"]
  /\ tree = RBTree_new
  /\ inserted = <<>>
  /\ store = Buffer_new
  /\ appended = <<>>

\* TextBufferBuilder::new()
NewBuilder ==
  /\ phase = "start"
  /\ phase' = "builder"
  /\ builder' = TextBufferBuilder_new
  /\ last' = [op |-> "builder"]
  /\ UNCHANGED <<buffer, accepted, nedits, tree, inserted, store, appended>>

\* TextBuffer::new()
New ==
  /\ phase = "start"
  /\ phase' = "buffer"
  /\ buffer' = TextBuffer_new
  /\ last' = [op |-> "new"]
  /\ UNCHANGED <<builder, accepted, nedits, tree, inserted, store, appended>>

\* TextBuffer::from_text(text)
FromText ==
  \E text \in ChunkTexts :
    /\ phase = "start"
    /\ phase' = "buffer"
    /\ buffer' = from_text(text)
    /\ accepted' = <<text>>
    /\ last' = [op |-> "from_text"]
    /\ UNCHANGED <<builder, nedits, tree, inserted, store, appended>>

\* builder.accept_chunk(text)
AcceptChunk ==
  \E text \in ChunkTexts :
    /\ phase = "builder"
    /\ Len(accepted) < MaxChunks
    /\ builder' = accept_chunk(builder, text)
    /\ accepted' = Append(accepted, text)
    /\ last' = [op |-> "accept_chunk"]
    /\ UNCHANGED <<phase, buffer, nedits, tree, inserted, store, appended>>

\* builder.build(), which consumes the builder
Build ==
  /\ phase = "builder"
  /\ phase' = "buffer"
  /\ buffer' = build(builder)
  /\ builder' = TextBufferBuilder_new
  /\ last' = [op |-> "build"]
  /\ UNCHANGED <<accepted, nedits, tree, inserted, store, appended>>

\* buffer.insert(position, text)
Insert ==
  \E position \in ArgPositions(buffer) :
    \E text \in InsertTexts :
      /\ phase = "buffer"
      /\ nedits < MaxEdits
      /\ LET r == insert(buffer, position, text)
         IN /\ buffer' = r.tb
            /\ last' = [op |-> "insert",
                        text |-> text,
                        offset |-> position_to_offset(buffer, position),
                        res |-> r.res,
                        old |-> buffer]
      /\ nedits' = nedits + 1
      /\ UNCHANGED <<phase, builder, accepted, tree, inserted, store, appended>>

\* buffer.delete(range)
Delete ==
  \E start \in ArgPositions(buffer) :
    \E end \in ArgPositions(buffer) :
      /\ phase = "buffer"
      /\ nedits < MaxEdits
      /\ LET r == delete(buffer, Range_new(start, end))
         IN /\ buffer' = r.tb
            /\ last' = [op |-> "delete",
                        start_offset |-> position_to_offset(buffer, start),
                        end_offset |-> position_to_offset(buffer, end),
                        res |-> r.res,
                        old |-> buffer]
      /\ nedits' = nedits + 1
      /\ UNCHANGED <<phase, builder, accepted, tree, inserted, store, appended>>

Next ==
  \/ NewBuilder
  \/ New
  \/ FromText
  \/ AcceptChunk
  \/ Build
  \/ Insert
  \/ Delete

Spec == Init /\ [][Next]_vars

\* the pieces given to RBTree::insert: empty, one byte, two bytes with a break
TreePieces ==
  {Piece_original(0, 0, 0, 0), Piece_added(0, 0, 1, 0), Piece_original(0, 0, 2, 1)}

\* one RBTree::insert call on the tree
TreeInsert ==
  \E piece \in TreePieces :
    /\ RBTree_len(tree) < MaxTreeInserts
    /\ tree' = RBTree_insert(tree, piece)
    /\ inserted' = Append(inserted, piece)
    /\ UNCHANGED <<phase, builder, buffer, accepted, nedits, last, store, appended>>

TreeNext == TreeInsert

\* sequences of RBTree::insert calls starting from RBTree::new()
SpecTree == Init /\ [][TreeNext]_vars

\* Buffer::from_text as the first call on the store
BufferFromText ==
  \E text \in ChunkTexts :
    /\ appended = <<>>
    /\ store' = Buffer_from_text(text)
    /\ appended' = <<text>>
    /\ UNCHANGED <<phase, builder, buffer, accepted, nedits, last, tree, inserted>>

\* one Buffer::append call on the store
BufferAppend ==
  \E text \in ChunkTexts :
    /\ Len(appended) < MaxAppends
    /\ store' = Buffer_append(store, text)
    /\ appended' = Append(appended, text)
    /\ UNCHANGED <<phase, builder, buffer, accepted, nedits, last, tree, inserted>>

BufferNext ==
  \/ BufferFromText
  \/ BufferAppend

\* a raw store from Buffer::new() or Buffer::from_text, then append calls
SpecBuffer == Init /\ [][BufferNext]_vars

\* the sum of the line break counts of a sequence of pieces
RECURSIVE SumLineBreaks(_)
SumLineBreaks(pieces) ==
  IF pieces = <<>> THEN 0
  ELSE Head(pieces).line_break_count + SumLineBreaks(Tail(pieces))

\* every node of the subtree caches the sums over its left subtree
RECURSIVE AggregatesExact(_)
AggregatesExact(node) ==
  \/ node = None
  \/ LET n == node[1]
         left_pieces == collect_pieces_recursive(n.left)
     IN /\ n.left_subtree_length = SumLengths(left_pieces)
        /\ n.left_subtree_line_breaks = SumLineBreaks(left_pieces)
        /\ AggregatesExact(n.left)
        /\ AggregatesExact(n.right)

\* the piece of the sequence that holds byte X of the concatenation: the one
\* with (lengths before it) <= X < (lengths before it) + its length, if any
RECURSIVE PieceAtOffset(_, _)
PieceAtOffset(pieces, X) ==
  IF pieces = <<>> THEN None
  ELSE IF X < Head(pieces).length THEN Some(Head(pieces))
  ELSE PieceAtOffset(Tail(pieces), X - Head(pieces).length)

\* the pieces of the sequence that hold part of line L: a piece with b line
\* breaks before it and c of its own holds bytes of the lines b..b+c; a piece
\* of no bytes holds part of no line
RECURSIVE PiecesAtLine(_, _, _)
PiecesAtLine(pieces, breaks_before, L) ==
  IF pieces = <<>> THEN <<>>
  ELSE LET p == Head(pieces)
           rest == PiecesAtLine(Tail(pieces), breaks_before + p.line_break_count, L)
       IN IF p.length > 0 /\ breaks_before <= L /\ L <= breaks_before + p.line_break_count
          THEN <<p>> \o rest
          ELSE rest

\* no red node of the subtree has a red child
RECURSIVE NoRedRed(_)
NoRedRed(node) ==
  \/ node = None
  \/ /\ is_red(node) => (~is_red(node[1].left) /\ ~is_red(node[1].right))
     /\ NoRedRed(node[1].left)
     /\ NoRedRed(node[1].right)

\* the numbers of black nodes on the paths from the node to an absent child
RECURSIVE BlackHeights(_)
BlackHeights(node) ==
  IF node = None THEN {0}
  ELSE LET b == IF is_red(node) THEN 0 ELSE 1
       IN {h + b : h \in BlackHeights(node[1].left) \cup BlackHeights(node[1].right)}

\* the number of red nodes of the subtree
RECURSIVE RedCount(_)
RedCount(node) ==
  IF node = None THEN 0
  ELSE (IF is_red(node) THEN 1 ELSE 0) + RedCount(node[1].left) + RedCount(node[1].right)

\* ------------------------------------------------------------------- claims
Built == phase = "buffer"

Text == get_all_text(buffer)

\* bytes [s, e) of a text
Bytes(text, s, e) == SubSeq(text, s + 1, e)

HasMultiByte(text) == \E i \in 1..Len(text) : text[i] >= 128

\* C1: a successful insert(P, T) of a non-empty T at the offset o that P
\* resolves to makes the text old[0..o) + T + old[o..)
C1_InsertAtOffset ==
  (last.op = "insert" /\ last.res.ok /\ last.text # <<>>) =>
    LET old == get_all_text(last.old)
        o == last.offset.val
    IN Text = Bytes(old, 0, o) \o last.text \o Bytes(old, o, Len(old))

\* C2: a successful delete of the offsets [s, e) makes the text
\* old[0..s) + old[e..) and shortens the buffer by e - s
C2_DeleteRemovesRange ==
  (last.op = "delete" /\ last.res.ok) =>
    LET old == get_all_text(last.old)
        s == last.start_offset.val
        e == last.end_offset.val
    IN /\ Text = Bytes(old, 0, s) \o Bytes(old, e, Len(old))
       /\ length(buffer) = length(last.old) - (e - s)

\* C3: get_line_content(L) is the L-th segment of the text split on '\n',
\* for every line L < line_count()
C3_LineContentIsSegment ==
  Built =>
    \A L \in 0..(line_count(buffer) - 1) :
      LET r == get_line_content(buffer, L)
          ls == LinesOf(Text)
      IN r.ok /\ L < Len(ls) /\ r.val = Concat(ls[L + 1])

\* C4: after accept_chunk calls (empty chunks included) and build(), the
\* text of the buffer is the concatenation of the chunks in call order
C4_BuildRoundTrip ==
  (last.op \in {"build", "from_text"}) => Text = Concat(accepted)

C4_Witness ==
  /\ last.op = "build"
  /\ Len(accepted) = 2
  /\ accepted[1] # <<>>
  /\ accepted[2] # <<>>
  /\ Text = accepted[1] \o accepted[2]

\* C5: line_count() is the number of '\n' in the text plus 1, at least 1
C5_LineCountLaw ==
  Built => /\ line_count(buffer) = CountNL(Text) + 1
           /\ line_count(buffer) >= 1

C5_Witness ==
  /\ last.op = "insert"
  /\ last.res.ok
  /\ CountNL(last.text) = 1
  /\ CountNL(get_all_text(last.old)) >= 2
  /\ line_count(buffer) = line_count(last.old) + 1

\* C6: for every byte offset o in [0, length()], offset_to_position(o)
\* succeeds and position_to_offset maps the position back to o
C6_OffsetRoundTrip ==
  Built =>
    \A o \in 0..length(buffer) :
      LET p == offset_to_position(buffer, o)
      IN p.ok /\ position_to_offset(buffer, p.val) = Ok(o)

\* C6 as amended: the same for every offset o in [0, length()] that lies on
\* a character boundary of the text
C6_OffsetRoundTripOnBoundaries ==
  Built =>
    \A o \in Boundaries(Text) :
      LET p == offset_to_position(buffer, o)
      IN p.ok /\ position_to_offset(buffer, p.val) = Ok(o)

C6_Witness ==
  /\ Built
  /\ HasMultiByte(Text)
  /\ Len(collect_pieces(buffer.tree)) >= 2
  /\ Boundaries(Text) # 0..length(buffer)
  /\ \E o \in Boundaries(Text) :
       /\ o > 2
       /\ offset_to_position(buffer, o).ok
       /\ offset_to_position(buffer, o).val.line > 0

\* C7: delete(range) followed by insert(range.start, returned text) leaves
\* the text as it was before the delete
C7_DeleteInsertInverse ==
  Built =>
    \A start \in ArgPositions(buffer) :
      \A end \in ArgPositions(buffer) :
        LET d == delete(buffer, Range_new(start, end))
        IN d.res.ok =>
             LET i == insert(d.tb, start, d.res.val)
             IN i.res.ok /\ get_all_text(i.tb) = Text

\* C8: get_text_in_range(range) is the bytes [s, e) of the text, for every
\* range whose endpoints resolve to offsets s < e
C8_TextInRange ==
  Built =>
    \A start \in ArgPositions(buffer) :
      LET s == position_to_offset(buffer, start)
      IN s.ok =>
           \A end \in ArgPositions(buffer) :
             LET e == position_to_offset(buffer, end)
             IN (e.ok /\ s.val < e.val) =>
                  get_text_in_range(buffer, Range_new(start, end))
                    = Ok(Bytes(Text, s.val, e.val))

C8_Witness ==
  /\ Built
  /\ \E start \in ArgPositions(buffer) :
       \E end \in ArgPositions(buffer) :
         LET s == position_to_offset(buffer, start)
             e == position_to_offset(buffer, end)
             ps == collect_pieces(buffer.tree)
         IN /\ s.ok /\ e.ok
            /\ Len(ps) = 3
            /\ 0 < s.val /\ s.val < ps[1].length
            /\ ps[1].length + ps[2].length < e.val /\ e.val <= length(buffer)
            /\ get_text_in_range(buffer, Range_new(start, end)).ok

\* the range from (0, 0) to the end of the last line
WholeRange(tb) ==
  Range_new(Position_new(0, 0),
            Position_new(line_count(tb) - 1,
                         get_line_length(tb, line_count(tb) - 1).val))

\* C9: get_text_in_range from (0, 0) to the end of the last line succeeds
\* and returns the whole text, the empty document included
C9_WholeRange ==
  Built => get_text_in_range(buffer, WholeRange(buffer)) = Ok(Text)

\* C9 as amended: the same for every buffer whose text is not empty
C9_WholeRangeNonEmpty ==
  (Built /\ Text # <<>>) => get_text_in_range(buffer, WholeRange(buffer)) = Ok(Text)

C9_Witness ==
  /\ Built
  /\ Len(collect_pieces(buffer.tree)) = 3
  /\ CountNL(Text) >= 1
  /\ HasMultiByte(Text)
  /\ get_text_in_range(buffer, WholeRange(buffer)).ok

\* C10: position_to_offset fails with "Position out of bounds" whenever the
\* line is not a line of the text or the column is past the end of that line
C10_PositionOutOfBounds ==
  Built =>
    \A position \in ArgPositions(buffer) :
      LET ls == LinesOf(Text)
      IN (\/ position.line >= line_count(buffer)
          \/ position.column > Len(ls[position.line + 1])) =>
           position_to_offset(buffer, position) = Err("Position out of bounds")

\* C11: when insert or delete returns an error the buffer (original stores,
\* added stores and piece tree) is what it was before the call
C11_ErrorLeavesBufferUnchanged ==
  (last.op \in {"insert", "delete"} /\ ~last.res.ok) => buffer = last.old

C11_Witness ==
  /\ last.op = "insert"
  /\ ~last.res.ok
  /\ last.text # <<>>
  /\ Len(collect_pieces(last.old.tree)) = 2
  /\ buffer = last.old

\* C12: insert returns the error of position_to_offset whenever the position
\* does not resolve, for every text, the empty text included
C12_InsertValidatesPosition ==
  (last.op = "insert" /\ ~last.offset.ok) => last.res = last.offset

\* C13: get_text_in_range and delete both fail with "Invalid range" whenever
\* both endpoints resolve and the end offset is not past the start offset,
\* and delete then changes nothing
C13_InvalidRange ==
  Built =>
    \A start \in ArgPositions(buffer) :
      LET s == position_to_offset(buffer, start)
      IN s.ok =>
           \A end \in ArgPositions(buffer) :
             LET e == position_to_offset(buffer, end)
             IN (e.ok /\ e.val <= s.val) =>
                  LET range == Range_new(start, end)
                      d == delete(buffer, range)
                  IN /\ get_text_in_range(buffer, range) = Err("Invalid range")
                     /\ d.res = Err("Invalid range")
                     /\ d.tb = buffer

C13_Witness ==
  /\ last.op = "delete"
  /\ last.start_offset.ok
  /\ last.end_offset.ok
  /\ last.end_offset.val < last.start_offset.val
  /\ last.res = Err("Invalid range")
  /\ buffer = last.old
  /\ Len(collect_pieces(buffer.tree)) = 2

\* C14: get_line_content(line) and get_line_length(line) return the
\* line-out-of-bounds error exactly when line >= line_count(), and succeed for
\* every line below line_count()
C14_LineOutOfBounds ==
  Built =>
    \A line \in 0..(line_count(buffer) + 1) :
      LET content == get_line_content(buffer, line)
          len == get_line_length(buffer, line)
          oob == Err(<<"Line", line, "out of bounds">>)
      IN /\ (content = oob) <=> (line >= line_count(buffer))
         /\ (len = oob) <=> (line >= line_count(buffer))
         /\ (line < line_count(buffer)) => (content.ok /\ len.ok)

C14_Witness ==
  /\ Built
  /\ Len(collect_pieces(buffer.tree)) = 3
  /\ line_count(buffer) = 3
  /\ get_line_length(buffer, 2).ok
  /\ ~get_line_content(buffer, 3).ok

\* C15: a successful delete(range) returns the bytes [s, e) of the text the
\* buffer had before the call, s and e being the offsets of the range's ends
C15_DeleteReturnsRange ==
  /\ (last.op = "delete" /\ last.res.ok) =>
       last.res.val = Bytes(get_all_text(last.old),
                            last.start_offset.val, last.end_offset.val)
  /\ Built =>
       \A start \in ArgPositions(buffer) :
         LET s == position_to_offset(buffer, start)
         IN s.ok =>
              \A end \in ArgPositions(buffer) :
                LET e == position_to_offset(buffer, end)
                    d == delete(buffer, Range_new(start, end))
                IN (e.ok /\ d.res.ok) => d.res.val = Bytes(Text, s.val, e.val)

C15_Witness ==
  /\ last.op = "delete"
  /\ last.res.ok
  /\ Len(collect_pieces(last.old.tree)) = 2
  /\ last.start_offset.val = 1
  /\ last.end_offset.val = Len(get_all_text(last.old)) - 1
  /\ HasMultiByte(last.res.val)

\* the position_to_offset half of C16: (L, c) resolves to the byte offset of
\* the start of line L plus the UTF-8 widths of the first c chars of the line
C16_PositionToOffsetScalar ==
  Built =>
    LET ls == LinesOf(Text)
    IN \A L \in 0..(Len(ls) - 1) :
         \A c \in 0..Len(ls[L + 1]) :
           position_to_offset(buffer, Position_new(L, c))
             = Ok(LineStart(ls, L) + Len(Concat(SubSeq(ls[L + 1], 1, c))))

\* the get_line_length half of C16: get_line_length(L) is the number of chars
\* of line L
C16_LineLengthScalar ==
  Built =>
    LET ls == LinesOf(Text)
    IN \A L \in 0..(Len(ls) - 1) :
         get_line_length(buffer, L) = Ok(Len(ls[L + 1]))

\* C16: columns count Unicode scalar values: for every line L and column c up
\* to the number of chars of line L, position_to_offset((L, c)) is the byte
\* offset of the start of line L plus the UTF-8 widths of the first c chars of
\* the line, and get_line_length(L) is the number of chars of the line
C16_ScalarColumns == C16_PositionToOffsetScalar /\ C16_LineLengthScalar
\* C17: the empty document, made by TextBuffer::new(), from_text("") or a
\* build() after zero or only empty chunks, has line_count() = 1, length() = 0,
\* is_empty() true, get_all_text() = "" and get_line_content(0) = Ok("")
C17_EmptyDocument ==
  (last.op \in {"new", "from_text", "build"} /\ Concat(accepted) = <<>>) =>
    /\ phase = "buffer"
    /\ line_count(buffer) = 1
    /\ length(buffer) = 0
    /\ is_empty(buffer)
    /\ get_all_text(buffer) = <<>>
    /\ get_line_content(buffer, 0) = Ok(<<>>)

C17_Witness ==
  /\ last.op = "build"
  /\ accepted = << <<>>, <<>> >>
  /\ RBTree_len(buffer.tree) = 1
  /\ is_empty(buffer)
  /\ get_line_content(buffer, 0) = Ok(<<>>)

\* C18: in every buffer state length() is the byte length of get_all_text(),
\* which is the sum of the lengths of the pieces of the tree, and is_empty()
\* is true exactly when that length is 0
C18_LengthIsByteLength ==
  Built =>
    /\ length(buffer) = Len(Text)
    /\ length(buffer) = SumLengths(collect_pieces(buffer.tree))
    /\ is_empty(buffer) <=> (Len(Text) = 0)

C18_Witness ==
  /\ Built
  /\ Len(collect_pieces(buffer.tree)) = 3
  /\ HasMultiByte(Text)
  /\ length(buffer) = 5
  /\ Len(chars(Text)) = 3
  /\ ~is_empty(buffer)

\* offsets given to offset_to_position: every offset of the text and two past it
ArgOffsets(tb) == 0..(Len(get_all_text(tb)) + 2)

\* the panic half of C19: no slice of a piece out of its buffer or off a
\* character boundary, no panicking slice in get_text_in_range or delete for
\* any range, no unwrap of a missing added buffer in insert
C19_NoPanic ==
  /\ Built =>
       /\ \A i \in 1..Len(collect_pieces(buffer.tree)) :
            ~piece_content_panics(collect_pieces(buffer.tree)[i],
                                  buffer.original_buffers, buffer.added_buffers)
       /\ \A start \in ArgPositions(buffer) :
            /\ \A text \in InsertTexts : ~insert_panics(buffer, start, text)
            /\ \A end \in ArgPositions(buffer) :
                 /\ get_text_in_range(buffer, Range_new(start, end)) # Panic
                 /\ delete(buffer, Range_new(start, end)).res # Panic
  /\ (last.op \in {"insert", "delete"}) => last.res # Panic

\* the error half of C19: a line, offset or position outside the text yields
\* an error value
C19_OutOfRangeIsError ==
  Built =>
    LET ls == LinesOf(Text)
    IN /\ \A line \in Len(ls)..(Len(ls) + 1) :
            ~get_line_content(buffer, line).ok /\ ~get_line_length(buffer, line).ok
       /\ \A offset \in ArgOffsets(buffer) :
            (offset > Len(Text)) => ~offset_to_position(buffer, offset).ok
       /\ \A position \in ArgPositions(buffer) :
            (\/ position.line >= Len(ls)
             \/ position.column > Len(ls[position.line + 1])) =>
              ~position_to_offset(buffer, position).ok

\* C19: no public operation panics in any buffer state for any line, offset,
\* position or range: out-of-range input always yields an error value, and no
\* string slice is taken outside a piece or off a character boundary
C19_NoPanicOutOfRangeIsError == C19_NoPanic /\ C19_OutOfRangeIsError

\* C20: after any sequence of RBTree::insert calls from the empty tree the
\* root is Black, no Red node has a Red child, and every path from the root
\* to an absent child has the same number of Black nodes
C20_RedBlackInvariants ==
  /\ ~is_red(tree.root)
  /\ NoRedRed(tree.root)
  /\ Cardinality(BlackHeights(tree.root)) = 1

C20_Witness ==
  /\ RBTree_len(tree) = 6
  /\ RedCount(tree.root) = 2
  /\ BlackHeights(tree.root) = {2}
  /\ NoRedRed(tree.root)

\* C21: after any sequence of RBTree::insert calls every node's
\* left_subtree_length is the sum of piece.length over its left subtree and its
\* left_subtree_line_breaks the sum of piece.line_break_count over it, so that
\* total_length() and total_line_breaks() are the sums over the inserted pieces
C21_AggregatesExact ==
  /\ AggregatesExact(tree.root)
  /\ total_length(tree) = SumLengths(inserted)
  /\ total_line_breaks(tree) = SumLineBreaks(inserted)

C21_Witness ==
  /\ Len(inserted) = 6
  /\ total_length(tree) = 8
  /\ total_line_breaks(tree) = 3
  /\ tree.root[1].left_subtree_length = 5
  /\ tree.root[1].left_subtree_line_breaks = 2

\* C22: after any sequence of RBTree::insert calls collect_pieces() has len()
\* elements and is the sequence of the inserted pieces in insertion order
C22_CollectInInsertionOrder ==
  /\ Len(collect_pieces(tree)) = RBTree_len(tree)
  /\ collect_pieces(tree) = inserted

C22_Witness ==
  /\ Len(inserted) = 6
  /\ {inserted[i] : i \in 1..Len(inserted)} = TreePieces
  /\ inserted[1] # inserted[2]
  /\ tree.root[1].left # None
  /\ tree.root[1].right # None
  /\ collect_pieces(tree) = inserted

\* C23: for every tree made by inserts and every offset X < total_length(),
\* find_piece_at_offset(X) is the piece P of the in-order sequence with
\* (lengths before P) <= X < (lengths before P) + P.length, zero-length pieces
\* skipped; for every X >= total_length() it is None
C23_FindPieceAtOffset ==
  \A X \in 0..(total_length(tree) + 1) :
    LET found == find_piece_at_offset(tree, X)
    IN /\ found = PieceAtOffset(inserted, X)
       /\ (X < total_length(tree)) => (found # None /\ found[1].length > 0)
       /\ (X >= total_length(tree)) => found = None

C23_Witness ==
  /\ Len(inserted) = 6
  /\ inserted[1].length = 0
  /\ inserted[4].length = 0
  /\ inserted[5].length = 2
  /\ total_length(tree) = 6
  /\ find_piece_at_offset(tree, 4) = Some(inserted[5])
  /\ find_piece_at_offset(tree, 6) = None

\* C24: for every tree made by inserts and every line L with
\* 0 <= L <= total_line_breaks(), find_pieces_at_line(L) is the sequence of
\* the pieces that hold part of line L, from the piece where the line starts
\* to the piece where it ends, the last line and lines over several pieces
\* included
C24_FindPiecesAtLine ==
  \A L \in 0..total_line_breaks(tree) :
    find_pieces_at_line(tree, L) = PiecesAtLine(inserted, 0, L)

\* what find_pieces_at_line does return: the one piece that holds the line
\* break ending line L, and nothing for the last line
C24_PieceOfLineBreak ==
  \A L \in 0..total_line_breaks(tree) :
    LET found == find_pieces_at_line(tree, L)
    IN /\ (L = total_line_breaks(tree)) => found = <<>>
       /\ (L < total_line_breaks(tree)) =>
            /\ Len(found) = 1
            /\ found[1].line_break_count > 0

\* the stores a piece of the given type indexes
StoresOf(tb, piece) ==
  IF piece.piece_type = "Original" THEN tb.original_buffers ELSE tb.added_buffers

\* C25: in every TextBuffer state every piece of the tree names an existing
\* store, has start + length within that store's content and a
\* line_break_count equal to the number of '\n' in content[start..start+length),
\* so that get_piece_content never fails
C25_PiecesWellFormed ==
  Built =>
    \A i \in 1..Len(collect_pieces(buffer.tree)) :
      LET piece == collect_pieces(buffer.tree)[i]
          stores == StoresOf(buffer, piece)
      IN /\ piece.buffer_index < Len(stores)
         /\ LET content == stores[piece.buffer_index + 1].content
            IN /\ piece.start + piece.length <= Len(content)
               /\ piece.line_break_count
                    = CountNL(Bytes(content, piece.start, piece.start + piece.length))
         /\ get_piece_content(buffer, piece) # None

C25_Witness ==
  /\ Built
  /\ LET pieces == collect_pieces(buffer.tree)
     IN /\ Len(pieces) = 3
        /\ pieces[2].piece_type = "Original"
        /\ pieces[2].start = 2
        /\ pieces[2].line_break_count = 1
        /\ pieces[3].piece_type = "Added"
        /\ pieces[3].line_break_count = 1
        /\ get_piece_content(buffer, pieces[2]) # None

\* C26: for a raw store made by Buffer::new() or Buffer::from_text and after
\* any sequence of append calls, line_starts[0] = 0, line_starts is strictly
\* increasing, its entries after the first are exactly the byte offsets just
\* after each '\n' of content, and the store is Buffer::from_text of the
\* concatenated text
C26_LineStarts ==
  LET ls == store.line_starts
      content == store.content
  IN /\ content = Concat(appended)
     /\ Len(ls) >= 1
     /\ ls[1] = 0
     /\ \A k \in 1..(Len(ls) - 1) : ls[k] < ls[k + 1]
     /\ {ls[k] : k \in 2..Len(ls)} = {i \in 1..Len(content) : content[i] = NL[1]}
     /\ Len(ls) = CountNL(content) + 1
     /\ store = Buffer_from_text(Concat(appended))

C26_Witness ==
  /\ Len(appended) = 3
  /\ appended[1] = <<195, 169, 10>>
  /\ appended[2] = <<10, 97>>
  /\ appended[3] = <<10>>
  /\ store.line_starts = <<0, 3, 4, 6>>

\* s is a prefix of t
IsPrefix(s, t) == Len(s) <= Len(t) /\ SubSeq(t, 1, Len(s)) = s

\* the stores of new are those of old, the added stores appended to at most
AppendOnly(old, new) ==
  /\ new.original_buffers = old.original_buffers
  /\ Len(new.added_buffers) = Len(old.added_buffers)
  /\ \A i \in 1..Len(old.added_buffers) :
       IsPrefix(old.added_buffers[i].content, new.added_buffers[i].content)

\* the stores of new are those of old
SameStores(old, new) ==
  /\ new.original_buffers = old.original_buffers
  /\ new.added_buffers = old.added_buffers

\* C27: after build() no operation changes an original store, insert only
\* appends to an added store (the old content of every added store is a prefix
\* of its new content) and delete changes no store
C27_StoresAppendOnly ==
  /\ (last.op = "insert") => AppendOnly(last.old, buffer)
  /\ (last.op = "delete") => SameStores(last.old, buffer)
  /\ Built =>
       \A start \in ArgPositions(buffer) :
         /\ \A text \in InsertTexts :
              AppendOnly(buffer, insert(buffer, start, text).tb)
         /\ \A end \in ArgPositions(buffer) :
              SameStores(buffer, delete(buffer, Range_new(start, end)).tb)

C27_Witness ==
  /\ last.op = "insert"
  /\ last.res.ok
  /\ buffer.original_buffers # <<Buffer_new>>
  /\ buffer.added_buffers[1].content = <<97>>
  /\ insert(buffer, Position_new(0, 0), NL).tb.added_buffers[1].content = <<97, 10>>
  /\ insert(buffer, Position_new(0, 0), NL).tb.original_buffers = buffer.original_buffers

\* C28: on a raw store offset_at_position(line, column) succeeds exactly when
\* line < line_count() and column <= the number of chars of the line, and then
\* returns the line's start offset plus the UTF-8 width of the first column
\* chars of the line; position_at_offset(offset) succeeds exactly when
\* offset <= the content length
C28_StorePositions ==
  LET ls == LinesOf(store.content)
  IN /\ \A line \in 0..(Buffer_line_count(store) + 1) :
          /\ ~line_content_panics(store, line)
          /\ \A column \in 0..(MaxLen(ls) + 1) :
               LET r == offset_at_position(store, line, column)
                   valid == /\ line < Buffer_line_count(store)
                            /\ line < Len(ls)
                            /\ column <= Len(ls[line + 1])
               IN /\ (r # None) <=> valid
                  /\ valid => r = Some(LineStart(ls, line)
                                         + Len(Concat(SubSeq(ls[line + 1], 1, column))))
     /\ \A offset \in 0..(Len(store.content) + 2) :
          (position_at_offset(store, offset) # None) <=> (offset <= Len(store.content))

C28_Witness ==
  /\ store.content = <<97, 10, 195, 169, 97, 10>>
  /\ Buffer_line_count(store) = 3
  /\ offset_at_position(store, 1, 2) = Some(5)
  /\ offset_at_position(store, 1, 3) = None
  /\ offset_at_position(store, 2, 0) = Some(6)
  /\ position_at_offset(store, 6) = Some(<<2, 0>>)
  /\ position_at_offset(store, 7) = None

\* C29: for every buffer state and every position p that position_to_offset
\* accepts, offset_to_position(position_to_offset(p)) succeeds and is p
C29_PositionRoundTrip ==
  Built =>
    \A p \in ArgPositions(buffer) :
      LET o == position_to_offset(buffer, p)
      IN o.ok => offset_to_position(buffer, o.val) = Ok(p)

\* C29 for the positions of the text: a line of the text and a column up to
\* the number of chars of that line
C29_PositionRoundTripInText ==
  Built =>
    LET ls == LinesOf(Text)
    IN \A p \in ArgPositions(buffer) :
         (p.line < Len(ls) /\ p.column <= Len(ls[p.line + 1])) =>
           LET o == position_to_offset(buffer, p)
           IN o.ok /\ offset_to_position(buffer, o.val) = Ok(p)

====
